---- MODULE Spec2Model ----
(***************************************************************************)
(* Model of app.py, the Streamlit "Stock Stochastic Trade Analyzer":       *)
(* the Login and Run Analysis handlers, the per-symbol loop, the indicator *)
(* columns and the entry filter, evaluate_targets and                      *)
(* calculate_weighted_score.                                               *)
(*                                                                         *)
(* Prices are integers in cents (the feed's 2-decimal prices), timestamps  *)
(* are integers in hours.  A float is a pair <<n, d>>: d > 0 is the        *)
(* rational n/d, <<0, 0>> is NaN, <<1, 0>> is +inf and <<-1, 0>> is -inf.  *)
(***************************************************************************)
EXTENDS Integers, Sequences, FiniteSets, TLC

(* ------------------------------------------------------------------ *)
(* Float arithmetic as pandas/numpy perform it on the columns          *)
(* ------------------------------------------------------------------ *)

NaN == <<0, 0>>
PosInf == <<1, 0>>
NegInf == <<-1, 0>>

IsNaN(x) == x[2] = 0 /\ x[1] = 0
IsInf(x) == x[2] = 0 /\ x[1] # 0
IsFinite(x) == x[2] > 0

Abs(n) == IF n < 0 THEN -n ELSE n

RECURSIVE Gcd(_, _)
Gcd(a, b) == IF b = 0 THEN a ELSE Gcd(b, a % b)

Norm(n, d) ==
    LET g == Gcd(Abs(n), d)
    IN  IF g = 0 THEN <<0, 1>> ELSE <<n \div g, d \div g>>

Num(n) == <<n, 1>>

\* x + y on finite operands; NaN when either operand is NaN or infinite
\* operands cancel.
FAdd(x, y) ==
    IF IsNaN(x) \/ IsNaN(y) THEN NaN
    ELSE IF IsInf(x) /\ IsInf(y) THEN (IF x = y THEN x ELSE NaN)
    ELSE IF IsInf(x) THEN x
    ELSE IF IsInf(y) THEN y
    ELSE LET g == Gcd(x[2], y[2])
             l == (x[2] \div g) * y[2]
         IN  Norm(x[1] * (l \div x[2]) + y[1] * (l \div y[2]), l)

\* n / d of two integers as numpy divides floats: x/0 is +-inf, 0/0 is NaN.
FDivInt(n, d) ==
    IF d = 0 THEN (IF n = 0 THEN NaN ELSE IF n > 0 THEN PosInf ELSE NegInf)
    ELSE IF d < 0 THEN Norm(-n, -d)
    ELSE Norm(n, d)

\* x / m for an integer m > 0.
FDivBy(x, m) == IF IsFinite(x) THEN Norm(x[1], x[2] * m) ELSE x

\* Variant of FLt: an undefined operand is read as 0 (fillna(0)).
FLtMut(x, y) ==
    LET a == IF x[2] = 0 THEN <<0, 1>> ELSE x
        b == IF y[2] = 0 THEN <<0, 1>> ELSE y
    IN  a[1] * b[2] < b[1] * a[2]

\* x < y and x > y as numpy compares floats: FALSE when an operand is NaN.
FLt(x, y) ==
    IF IsNaN(x) \/ IsNaN(y) THEN FALSE
    ELSE IF IsInf(x) /\ IsInf(y) THEN x[1] < y[1]
    ELSE IF IsInf(x) THEN x[1] < 0
    ELSE IF IsInf(y) THEN y[1] > 0
    ELSE x[1] * y[2] < y[1] * x[2]

FGt(x, y) == FLt(y, x)

(* ------------------------------------------------------------------ *)
(* Indicator columns (Run Analysis, lines 126-139)                     *)
(* ------------------------------------------------------------------ *)

StochWindow == 4
SmoothWindow == 3
RsiWindow == 2
DmaWindow == 200
StochLevel == 20
RsiLevel == 15

Min2(a, b) == IF a < b THEN a ELSE b
Max2(a, b) == IF a > b THEN a ELSE b

RECURSIVE MinOver(_, _, _)
MinOver(s, lo, hi) ==
    IF lo = hi THEN s[lo] ELSE Min2(s[lo], MinOver(s, lo + 1, hi))

RECURSIVE MaxOver(_, _, _)
MaxOver(s, lo, hi) ==
    IF lo = hi THEN s[lo] ELSE Max2(s[lo], MaxOver(s, lo + 1, hi))

RECURSIVE SumOver(_, _, _)
SumOver(s, lo, hi) ==
    IF lo > hi THEN 0
    ELSE IF lo = hi THEN s[lo]
    ELSE LET mid == (lo + hi) \div 2
         IN  SumOver(s, lo, mid) + SumOver(s, mid + 1, hi)

\* Series.rolling(window=w).mean() of a float column: NaN until the window
\* holds w observations; rolling() reads an infinite value as NaN.
RECURSIVE FSumOver(_, _, _)
FSumOver(col, lo, hi) ==
    IF IsInf(col[lo]) THEN NaN
    ELSE IF lo = hi THEN col[lo]
    ELSE FAdd(col[lo], FSumOver(col, lo + 1, hi))

RollingMean(col, w) ==
    [t \in 1..Len(col) |->
        IF t < w THEN NaN ELSE FDivBy(FSumOver(col, t - w + 1, t), w)]

\* df['low'].rolling(window=4).min(), df['high'].rolling(window=4).max()
low_min(bars) ==
    [t \in 1..Len(bars) |->
        IF t < StochWindow THEN NaN
        ELSE Num(MinOver([u \in 1..Len(bars) |-> bars[u].low], t - StochWindow + 1, t))]

high_max(bars) ==
    [t \in 1..Len(bars) |->
        IF t < StochWindow THEN NaN
        ELSE Num(MaxOver([u \in 1..Len(bars) |-> bars[u].high], t - StochWindow + 1, t))]

\* raw_k = 100 * (close - low_min) / (high_max - low_min)
raw_k(bars) ==
    LET lm == low_min(bars)
        hm == high_max(bars)
    IN  [t \in 1..Len(bars) |->
            IF t < StochWindow THEN NaN
            ELSE IF IsNaN(lm[t]) \/ IsNaN(hm[t]) THEN NaN
            ELSE FDivInt(100 * (bars[t].close - lm[t][1]), hm[t][1] - lm[t][1])]

\* df['%K'] = raw_k.rolling(window=3).mean(); df['%D'] likewise of df['%K'].
\* (col \o <<>> is col, held as an explicit sequence.)
ColK(bars) ==
    LET rk == raw_k(bars) \o <<>>
    IN  RollingMean(rk, SmoothWindow) \o <<>>

ColD(colK) == RollingMean(colK, SmoothWindow) \o <<>>

\* delta = close.diff(); gain = delta.where(delta > 0, 0);
\* loss = -delta.where(delta < 0, 0): the first row's NaN delta becomes 0.
delta(bars, t) == bars[t].close - bars[t - 1].close

gain(bars) ==
    [t \in 1..Len(bars) |->
        IF t = 1 THEN 0 ELSE IF delta(bars, t) > 0 THEN delta(bars, t) ELSE 0]

loss(bars) ==
    [t \in 1..Len(bars) |->
        IF t = 1 THEN 0 ELSE IF delta(bars, t) < 0 THEN -delta(bars, t) ELSE 0]

\* Sum over the rolling window of 2 (the mean's numerator), -1 when the
\* window is not full.
avg_gain2(bars, t) == IF t < RsiWindow THEN -1 ELSE SumOver(gain(bars), t - RsiWindow + 1, t)
avg_loss2(bars, t) == IF t < RsiWindow THEN -1 ELSE SumOver(loss(bars), t - RsiWindow + 1, t)

\* rs = avg_gain / avg_loss; RSI_2 = 100 - 100 / (1 + rs)
ColRSI(bars) ==
    [t \in 1..Len(bars) |->
        IF t < RsiWindow THEN NaN
        ELSE LET g == avg_gain2(bars, t)
                 l == avg_loss2(bars, t)
                 rs == FDivInt(g, l)
             IN  IF IsNaN(rs) THEN NaN
                 ELSE IF IsInf(rs) THEN Num(100)
                 ELSE \* rs = g/l: 100 - 100/(1 + g/l) = 100*g/(g + l)
                      FDivInt(100 * g, g + l)]

\* df['close'].rolling(window=200).mean()
ColDMA(bars) ==
    [t \in 1..Len(bars) |->
        IF t < DmaWindow THEN NaN
        ELSE LET closes == [u \in 1..Len(bars) |-> bars[u].close]
             IN  Norm(SumOver(closes, t - DmaWindow + 1, t), DmaWindow)]

\* The frame after lines 120-139: each bar with its four indicator columns.
IndicatorFrame(bars) ==
    LET k == ColK(bars)
        d == ColD(k)
        r == ColRSI(bars)
        m == ColDMA(bars)
    IN  [t \in 1..Len(bars) |->
            [datetime |-> bars[t].datetime, low |-> bars[t].low,
             high |-> bars[t].high, close |-> bars[t].close,
             K |-> k[t], D |-> d[t], RSI_2 |-> r[t], DMA200 |-> m[t]]]

\* The boolean mask of line 142-143 at one row.
EntryCondition(row) ==
    /\ FLt(row.K, Num(StochLevel))
    /\ FLt(row.D, Num(StochLevel))
    /\ FLt(row.RSI_2, Num(RsiLevel))
    /\ FGt(Num(row.close), row.DMA200)

\* The rows lo..hi of the frame that satisfy the mask, in frame order.
RECURSIVE SelectRows(_, _, _)
SelectRows(frame, lo, hi) ==
    IF lo > hi THEN <<>>
    ELSE IF lo = hi THEN (IF EntryCondition(frame[lo]) THEN <<frame[lo]>> ELSE <<>>)
    ELSE LET mid == (lo + hi) \div 2
         IN  SelectRows(frame, lo, mid) \o SelectRows(frame, mid + 1, hi)

\* entries = df[mask].copy(): the selected rows, in frame order.
SelectEntries(frame) == SelectRows(frame, 1, Len(frame))

(* ------------------------------------------------------------------ *)
(* State                                                               *)
(* ------------------------------------------------------------------ *)

VARIABLES
    tv,                 \* st.session_state.tv: Absent or the handle
    lastLogin,          \* outcome of the latest Login click: "none", "ok", "failed"
    pc,                 \* position of the script run
    symbols,            \* the parsed symbol list of the run
    i,                  \* enumerate(symbols, start=1) index
    fetched,            \* what tv.get_hist gave for symbols[1..i-1]
    summary,            \* list of summary rows
    trade_logs,         \* symbol -> (results, trades_list)
    progress,           \* <<num, den>> last handed to progress.progress, <<0, 1>> at start
    summary_df,         \* the sorted summary frame, <<>> when not built
    df,                 \* the frame of the symbol in hand
    entries,            \* the rows selected as entries
    total_trades,       \* len(entries)
    pos,                \* number of entries evaluate_targets has iterated over
    results,            \* the seven counters
    trades_list,        \* the trade records
    open_trade_pending, \* None or the first Never-Hit entry date
    score               \* value returned by calculate_weighted_score (hundredths)

vars == <<tv, lastLogin, pc, symbols, i, fetched, summary, trade_logs, progress,
          summary_df, df, entries, total_trades, pos, results, trades_list,
          open_trade_pending, score>>

sessionVars == <<tv, lastLogin>>
loopVars == <<symbols, i, fetched, summary, trade_logs, progress, summary_df>>
evalVars == <<pos, results, trades_list, open_trade_pending>>

None == -1
Absent == "absent"
HoursPerDay == 24

(* ------------------------------------------------------------------ *)
(* evaluate_targets (lines 38-95)                                      *)
(* ------------------------------------------------------------------ *)

ZeroResults ==
    [le5 |-> 0, d5_10 |-> 0, d10_20 |-> 0, d20_30 |-> 0, gt30 |-> 0,
     NeverHit |-> 0, Overlapping |-> 0]

\* round(1.05 * entry_close, 2) on a price in cents: the nearest cent.  The
\* closes used below are never on a half cent (105*c % 100 # 50), where the
\* binary value of 1.05*c decides the direction.
target_price(entry_close) == (105 * entry_close + 50) \div 100

\* Variant of hit_target: the entry bar itself counts (>= for >).
hit_targetMut(frame, entry_date, target) ==
    {t \in 1..Len(frame) : frame[t].datetime >= entry_date /\ frame[t].high >= target}

\* future_data = df[df['datetime'] > entry_date];
\* hit_target = future_data[future_data['high'] >= target_price]: row indices.
hit_target(frame, entry_date, target) ==
    {t \in 1..Len(frame) : frame[t].datetime > entry_date /\ frame[t].high >= target}

\* hit_target.iloc[0]: the first selected row in frame order.
FirstRow(hits) == CHOOSE t \in hits : \A u \in hits : t <= u

\* (first_hit_date - entry_date).days
holding_days(first_hit_date, entry_date) == (first_hit_date - entry_date) \div HoursPerDay

\* Variant of Bucket: the boundaries fall in the upper bucket (< for <=).
BucketMut(days) ==
    IF days < 5 THEN "le5"
    ELSE IF days < 10 THEN "d5_10"
    ELSE IF days < 20 THEN "d10_20"
    ELSE IF days < 30 THEN "d20_30"
    ELSE "gt30"

\* The if/elif chain of lines 60-69.
Bucket(days) ==
    IF days <= 5 THEN "le5"
    ELSE IF days <= 10 THEN "d5_10"
    ELSE IF days <= 20 THEN "d10_20"
    ELSE IF days <= 30 THEN "d20_30"
    ELSE "gt30"

\* Lines 51-54: the overlap test against the pending marker.
IsOverlap(pending, entry_date) == pending # None /\ entry_date > pending

\* Variant of PendingAfterMiss: every Never-Hit entry moves the marker.
PendingAfterMissMut(pending, entry_date) == entry_date

\* Lines 82-83: the marker after a Never-Hit entry.
PendingAfterMiss(pending, entry_date) == IF pending = None THEN entry_date ELSE pending

\* Variant of CountMiss: the Never-Hit entry is not counted.
CountMissMut(res) == res

\* The counters after a Never-Hit entry (line 84).
CountMiss(res) == [res EXCEPT !.NeverHit = @ + 1]

\* One iteration of the loop of lines 44-93 on entry `row`, from the local
\* state st = [results, trades_list, open_trade_pending].
EvalEntry(st, frame, row) ==
    LET entry_date == row.datetime
        entry_close == row.close
        target == target_price(entry_close)
        hits == hit_target(frame, entry_date, target)
        overlap == IsOverlap(st.open_trade_pending, entry_date)
        res1 == IF overlap
                THEN [st.results EXCEPT !.Overlapping = @ + 1]
                ELSE st.results
        overlap_status == IF overlap THEN "Yes" ELSE "No"
    IN  IF hits # {}
        THEN LET first == frame[FirstRow(hits)]
                 days == holding_days(first.datetime, entry_date)
             IN  [results |-> [res1 EXCEPT ![Bucket(days)] = @ + 1],
                  trades_list |-> Append(st.trades_list,
                      [EntryDate |-> entry_date, EntryPrice |-> entry_close,
                       ExitDate |-> first.datetime, ExitHitPrice |-> first.high,
                       Outcome |-> "Target Hit", HoldingDays |-> days,
                       OverlapStatus |-> overlap_status]),
                  open_trade_pending |-> st.open_trade_pending]
        ELSE [results |-> CountMiss(res1),
              trades_list |-> Append(st.trades_list,
                  [EntryDate |-> entry_date, EntryPrice |-> entry_close,
                   ExitDate |-> None, ExitHitPrice |-> None,
                   Outcome |-> "Open Trade", HoldingDays |-> None,
                   OverlapStatus |-> overlap_status]),
              open_trade_pending |-> PendingAfterMiss(st.open_trade_pending, entry_date)]

EvalStart == [results |-> ZeroResults, trades_list |-> <<>>, open_trade_pending |-> None]

\* evaluate_targets(df, entries) as a whole: the loop from entry j on.
RECURSIVE EvaluateFrom(_, _, _, _)
EvaluateFrom(frame, ents, j, st) ==
    IF j > Len(ents) THEN st
    ELSE EvaluateFrom(frame, ents, j + 1, EvalEntry(st, frame, ents[j]))

evaluate_targets(frame, ents) == EvaluateFrom(frame, ents, 1, EvalStart)

\* Lines 39-43: evaluate_targets is entered.
EvalBegin ==
    /\ pc = "call"
    /\ results' = EvalStart.results
    /\ trades_list' = EvalStart.trades_list
    /\ open_trade_pending' = EvalStart.open_trade_pending
    /\ pos' = 0
    /\ pc' = "eval"
    /\ UNCHANGED <<sessionVars, loopVars, df, entries, total_trades, score>>

\* Lines 44-93: the next entry of entries.iterrows().
EvalStep ==
    /\ pc = "eval"
    /\ pos < Len(entries)
    /\ LET st == EvalEntry([results |-> results, trades_list |-> trades_list,
                            open_trade_pending |-> open_trade_pending],
                           df, entries[pos + 1])
       IN  /\ results' = st.results
           /\ trades_list' = st.trades_list
           /\ open_trade_pending' = st.open_trade_pending
    /\ pos' = pos + 1
    /\ UNCHANGED <<sessionVars, loopVars, df, entries, total_trades, score, pc>>

\* Line 95 / 145: the loop is exhausted and evaluate_targets returns.
EvalReturn ==
    /\ pc = "eval"
    /\ pos = Len(entries)
    /\ pc' = "score"
    /\ UNCHANGED <<sessionVars, loopVars, df, entries, total_trades, evalVars, score>>

(* ------------------------------------------------------------------ *)
(* calculate_weighted_score (lines 97-110)                             *)
(* ------------------------------------------------------------------ *)

\* Variant of WeightedSum: the overlap term is added, not subtracted.
WeightedSumMut(res) ==
    res.le5 * 5000 + res.d5_10 * 2500 + res.d10_20 * 1250 + res.d20_30 * 750
    + res.gt30 * 500 - res.NeverHit * 750 + res.Overlapping * 1000

\* The weights of lines 102-108 times 10000, so that with pct(x) = 100*x/total
\* the score in hundredths is WeightedSum / total.
WeightedSum(res) ==
    res.le5 * 5000 + res.d5_10 * 2500 + res.d10_20 * 1250 + res.d20_30 * 750
    + res.gt30 * 500 - res.NeverHit * 750 - res.Overlapping * 1000

\* round(x, 2) of x = n/d hundredths (d > 0): the nearest integer, a tie to
\* the even one.
RoundHalfEven(n, d) ==
    LET q == n \div d
        r == n % d
    IN  IF 2 * r > d \/ (2 * r = d /\ q % 2 = 1) THEN q + 1 ELSE q

\* The returned score, in hundredths.
calculate_weighted_score(res, total) ==
    IF total = 0 THEN 0 ELSE RoundHalfEven(WeightedSum(res), total)

\* Line 149.
ScoreStep ==
    /\ pc = "score"
    /\ score' = calculate_weighted_score(results, total_trades)
    /\ pc' = "append"
    /\ UNCHANGED <<sessionVars, loopVars, df, entries, total_trades, evalVars>>

(* ------------------------------------------------------------------ *)
(* Bounded inputs                                                      *)
(* ------------------------------------------------------------------ *)

PrefixLen == 197
TailLen == 5
MaxSymbols == 3
MaxBars == 3
MaxCount == 2

\* Bar shapes <<low, high, close>> in cents: a flat bar, a spike, two dips.
Shapes == {<<100, 100, 100>>, <<100, 130, 111>>, <<100, 105, 102>>, <<100, 104, 101>>}

\* A daily series: PrefixLen flat bars, then the bars of `tail`.
MkSeries(tail) ==
    [t \in 1..(PrefixLen + Len(tail)) |->
        LET sh == IF t <= PrefixLen THEN <<100, 100, 100>> ELSE tail[t - PrefixLen]
        IN  [datetime |-> HoursPerDay * (t - 1), low |-> sh[1], high |-> sh[2],
             close |-> sh[3]]]

SignalSeries == {MkSeries(tail) : tail \in [1..TailLen -> Shapes]}

\* What tv.get_hist can return to the loop: three series of the family.
Pool ==
    << MkSeries(<<<<100, 130, 111>>, <<100, 105, 102>>, <<100, 105, 102>>,
                  <<100, 105, 102>>, <<100, 104, 101>>, <<100, 130, 111>>>>),
       MkSeries(<<<<100, 130, 111>>, <<100, 105, 102>>, <<100, 105, 102>>,
                  <<100, 105, 102>>, <<100, 104, 101>>, <<100, 104, 101>>>>),
       MkSeries(<<<<100, 100, 100>>, <<100, 100, 100>>, <<100, 100, 100>>,
                  <<100, 100, 100>>, <<100, 100, 100>>, <<100, 100, 100>>>>) >>

\* Frames for evaluate_targets alone: up to MaxBars bars, ascending in time.
EvalTimes == {0, 24, 143, 144, 240, 264, 744}
EvalBarSet ==
    [datetime : EvalTimes, low : {100}, high : {116, 117}, close : {100, 111}]

IsAscending(frame) ==
    \A t \in 1..(Len(frame) - 1) : frame[t].datetime < frame[t + 1].datetime

EvalFrames ==
    UNION {{f \in [1..n -> EvalBarSet] : IsAscending(f)} : n \in 0..MaxBars}

\* The rows of `frame` whose index is in `keep`, in frame order.
RECURSIVE RowsAt(_, _, _)
RowsAt(frame, keep, t) ==
    IF t = 0 THEN <<>>
    ELSE IF t \in keep THEN Append(RowsAt(frame, keep, t - 1), frame[t])
         ELSE RowsAt(frame, keep, t - 1)

(* ------------------------------------------------------------------ *)
(* Login and Run Analysis (lines 14-19, 29-36, 112-171)                *)
(* ------------------------------------------------------------------ *)

Idle == pc \in {"idle", "done"}

NoRun ==
    /\ symbols = <<>>
    /\ i = 1
    /\ fetched = <<>>
    /\ summary = <<>>
    /\ trade_logs = <<>>
    /\ progress = <<0, 1>>
    /\ summary_df = <<>>
    /\ df = <<>>
    /\ entries = <<>>
    /\ total_trades = 0
    /\ pos = 0
    /\ results = ZeroResults
    /\ trades_list = <<>>
    /\ open_trade_pending = None
    /\ score = 0

\* A script rerun starts with no locals of the previous run.
ClearRun ==
    /\ symbols' = <<>>
    /\ i' = 1
    /\ fetched' = <<>>
    /\ summary' = <<>>
    /\ trade_logs' = <<>>
    /\ progress' = <<0, 1>>
    /\ summary_df' = <<>>
    /\ df' = <<>>
    /\ entries' = <<>>
    /\ total_trades' = 0
    /\ pos' = 0
    /\ results' = ZeroResults
    /\ trades_list' = <<>>
    /\ open_trade_pending' = None
    /\ score' = 0

\* Lines 14-17: TvDatafeed(username, password) returns.
LoginOk ==
    /\ Idle
    /\ tv' = "handle"
    /\ lastLogin' = "ok"
    /\ pc' = "idle"
    /\ ClearRun

\* Lines 18-19: TvDatafeed raises; session_state is not touched.
LoginFail ==
    /\ Idle
    /\ tv' = tv
    /\ lastLogin' = "failed"
    /\ pc' = "idle"
    /\ ClearRun

\* Lines 29-31: Run Analysis without "tv" in the session state.
RunAnalysisRefused ==
    /\ Idle
    /\ tv = Absent
    /\ pc' = "idle"
    /\ ClearRun
    /\ UNCHANGED sessionVars

\* Lines 29-36, 112: Run Analysis with a handle; the loop is entered.
RunAnalysisStart ==
    /\ Idle
    /\ tv # Absent
    /\ \E n \in 0..MaxSymbols : symbols' = [j \in 1..n |-> j]
    /\ i' = 1
    /\ fetched' = <<>>
    /\ summary' = <<>>
    /\ trade_logs' = <<>>
    /\ progress' = <<0, 1>>
    /\ summary_df' = <<>>
    /\ df' = <<>>
    /\ entries' = <<>>
    /\ total_trades' = 0
    /\ pos' = 0
    /\ results' = ZeroResults
    /\ trades_list' = <<>>
    /\ open_trade_pending' = None
    /\ score' = 0
    /\ pc' = "fetch"
    /\ UNCHANGED sessionVars

symbol == symbols[i]

\* Variant of NextAfterError: the error ends the loop.
NextAfterErrorMut(idx, n) == n + 1

\* The loop index after the except clause has run: the next symbol.
NextAfterError(idx, n) == idx + 1

\* Lines 114-116, 166-168: the try body raises; the except clause reports it
\* and the loop goes on to progress.progress(i / len(symbols)).
FetchError ==
    /\ pc = "fetch"
    /\ i <= Len(symbols)
    /\ fetched' = Append(fetched, [kind |-> "error", p |-> 0])
    /\ progress' = <<i, Len(symbols)>>
    /\ i' = NextAfterError(i, Len(symbols))
    /\ UNCHANGED <<sessionVars, pc, symbols, summary, trade_logs, summary_df, df,
                   entries, total_trades, evalVars, score>>

\* Lines 117-118: get_hist returns None or an empty frame; `continue` goes to
\* the next symbol, past the statement of line 168.
FetchEmpty ==
    /\ pc = "fetch"
    /\ i <= Len(symbols)
    /\ \E what \in {"none", "empty"} : fetched' = Append(fetched, [kind |-> what, p |-> 0])
    /\ i' = i + 1
    /\ UNCHANGED <<sessionVars, pc, symbols, summary, trade_logs, progress, summary_df,
                   df, entries, total_trades, evalVars, score>>

\* Lines 115-123: get_hist returns a series.
FetchSeries ==
    /\ pc = "fetch"
    /\ i <= Len(symbols)
    /\ \E p \in 1..Len(Pool) :
        /\ fetched' = Append(fetched, [kind |-> "series", p |-> p])
        /\ df' = Pool[p]
    /\ pc' = "signal"
    /\ UNCHANGED <<sessionVars, symbols, i, summary, trade_logs, progress, summary_df,
                   entries, total_trades, evalVars, score>>

\* Lines 126-144: the indicator columns, the entry filter, len(entries).
ComputeSignals ==
    /\ pc = "signal"
    /\ df' = IndicatorFrame(df)
    /\ entries' = SelectEntries(df')
    /\ total_trades' = Len(entries')
    /\ pc' = "call"
    /\ UNCHANGED <<sessionVars, loopVars, evalVars, score>>

\* round(pct(x), 2) of lines 147, 154-160, in hundredths.
Pct(x, total) == IF total > 0 THEN RoundHalfEven(10000 * x, total) ELSE 0

SummaryRow(sym, total, res, sc) ==
    [Stock |-> sym, TotalTrades |-> total,
     le5 |-> Pct(res.le5, total), d5_10 |-> Pct(res.d5_10, total),
     d10_20 |-> Pct(res.d10_20, total), d20_30 |-> Pct(res.d20_30, total),
     gt30 |-> Pct(res.gt30, total), NeverHit |-> Pct(res.NeverHit, total),
     Overlapping |-> Pct(res.Overlapping, total), WeightedScore |-> sc]

\* trade_logs[symbol] = (results, trades_list)
LogTrades(logs, sym, res, trades) ==
    [s \in (DOMAIN logs) \cup {sym} |-> IF s = sym THEN <<res, trades>> ELSE logs[s]]

\* Lines 151-164, 168: the summary row, the trade log, the progress bar.
AppendSummary ==
    /\ pc = "append"
    /\ summary' = Append(summary, SummaryRow(symbol, total_trades, results, score))
    /\ trade_logs' = LogTrades(trade_logs, symbol, results, trades_list)
    /\ progress' = <<i, Len(symbols)>>
    /\ i' = i + 1
    /\ pc' = "fetch"
    /\ UNCHANGED <<sessionVars, symbols, fetched, summary_df, df, entries,
                   total_trades, evalVars, score>>

IsPermutation(f, n) == \A a, b \in 1..n : a # b => f[a] # f[b]

\* sort_values(by="Weighted Score", ascending=False) with the default
\* kind='quicksort': the rows in non-increasing score order; the order of
\* rows of equal score is whatever the unstable sort of the build leaves.
SortOutcomes(rows) ==
    LET n == Len(rows)
    IN  {[a \in 1..n |-> rows[f[a]]] :
            f \in {g \in [1..n -> 1..n] :
                     /\ IsPermutation(g, n)
                     /\ \A a \in 1..(n - 1) :
                          rows[g[a]].WeightedScore >= rows[g[a + 1]].WeightedScore}}

\* Lines 170-171: the loop has ended.
LoopEnd ==
    /\ pc = "fetch"
    /\ i > Len(symbols)
    /\ IF summary # <<>>
       THEN summary_df' \in SortOutcomes(summary)
       ELSE summary_df' = <<>>
    /\ pc' = "done"
    /\ UNCHANGED <<sessionVars, symbols, i, fetched, summary, trade_logs, progress,
                   df, entries, total_trades, evalVars, score>>

(* ------------------------------------------------------------------ *)
(* Specifications                                                      *)
(* ------------------------------------------------------------------ *)

\* The session: a fresh browser session, nothing run.
Init ==
    /\ tv = Absent
    /\ lastLogin = "none"
    /\ pc = "idle"
    /\ NoRun

Next ==
    \/ LoginOk
    \/ LoginFail
    \/ RunAnalysisRefused
    \/ RunAnalysisStart
    \/ FetchError
    \/ FetchEmpty
    \/ FetchSeries
    \/ ComputeSignals
    \/ EvalBegin
    \/ EvalStep
    \/ EvalReturn
    \/ ScoreStep
    \/ AppendSummary
    \/ LoopEnd

Spec == Init /\ [][Next]_vars

Detached ==
    /\ tv = "handle"
    /\ lastLogin = "ok"
    /\ symbols = <<1>>
    /\ i = 1
    /\ fetched = <<>>
    /\ summary = <<>>
    /\ trade_logs = <<>>
    /\ progress = <<0, 1>>
    /\ summary_df = <<>>
    /\ score = 0

\* The indicator columns and the entry filter on every series of the family.
InitSignal ==
    /\ Detached
    /\ pc = "signal"
    /\ df \in SignalSeries
    /\ entries = <<>>
    /\ total_trades = 0
    /\ pos = 0
    /\ results = ZeroResults
    /\ trades_list = <<>>
    /\ open_trade_pending = None

NextSignal == ComputeSignals

SpecSignal == InitSignal /\ [][NextSignal]_vars

\* evaluate_targets on every small frame and every ordered selection of its
\* rows as entries.
InitEval ==
    /\ Detached
    /\ pc = "call"
    /\ df \in EvalFrames
    /\ \E keep \in SUBSET (1..Len(df)) : entries = RowsAt(df, keep, Len(df))
    /\ total_trades = Len(entries)
    /\ pos = 0
    /\ results = ZeroResults
    /\ trades_list = <<>>
    /\ open_trade_pending = None

NextEval == EvalBegin \/ EvalStep \/ EvalReturn

SpecEval == InitEval /\ [][NextEval]_vars

\* calculate_weighted_score on every combination of counters and total.
InitScore ==
    /\ Detached
    /\ pc = "score"
    /\ df = <<>>
    /\ entries = <<>>
    /\ pos = 0
    /\ trades_list = <<>>
    /\ open_trade_pending = None
    /\ results \in [le5 : 0..MaxCount, d5_10 : 0..MaxCount, d10_20 : 0..MaxCount,
                    d20_30 : 0..MaxCount, gt30 : 0..MaxCount, NeverHit : 0..MaxCount,
                    Overlapping : 0..MaxCount]
    /\ total_trades \in 0..(MaxCount + 1)

NextScore == ScoreStep

SpecScore == InitScore /\ [][NextScore]_vars

(* ------------------------------------------------------------------ *)
(* Properties of evaluate_targets (checked under SpecEval)             *)
(* ------------------------------------------------------------------ *)

SixBuckets(res) ==
    res.le5 + res.d5_10 + res.d10_20 + res.d20_30 + res.gt30 + res.NeverHit

\* C1: after evaluate_targets returns, every entry has been counted in
\* exactly one of the six outcome buckets, so their sum is the number of
\* entries (and, while the loop runs, the number of entries iterated over);
\* the Overlapping counter is not part of the sum; with no entries every
\* counter is zero and the trade list is empty.
C1_BucketsPartitionEntries ==
    /\ pc \in {"eval", "score"} =>
          /\ SixBuckets(results) = pos
          /\ Len(trades_list) = pos
    /\ pc = "score" =>
          /\ SixBuckets(results) = Len(entries)
          /\ Len(entries) = 0 => results = ZeroResults /\ trades_list = <<>>

C1_Witness ==
    /\ pc = "score"
    /\ results.NeverHit >= 1
    /\ results.Overlapping >= 1
    /\ SixBuckets(results) - results.NeverHit >= 1

OpenTrades == {j \in 1..Len(trades_list) : trades_list[j].Outcome = "Open Trade"}

FirstOpen == CHOOSE f \in OpenTrades : \A j \in OpenTrades : f <= j

C2_MarkerState ==
    /\ (open_trade_pending = None) <=> (OpenTrades = {})
    /\ OpenTrades # {} =>
          /\ open_trade_pending = trades_list[FirstOpen].EntryDate
          /\ \A j \in (FirstOpen + 1)..Len(trades_list) :
                trades_list[j].EntryDate > open_trade_pending
                    => trades_list[j].OverlapStatus = "Yes"
    /\ results.Overlapping =
          Cardinality({j \in 1..Len(trades_list) : trades_list[j].OverlapStatus = "Yes"})

\* C2: within one run of evaluate_targets the pending marker is set only by
\* the first Never-Hit entry (it is that entry's date), once set it is never
\* cleared nor advanced, and every entry processed afterwards with a later
\* timestamp is flagged overlapping and counted in Overlapping, whatever its
\* own outcome.
C2_PendingMarkerMonotone ==
    /\ []C2_MarkerState
    /\ [][open_trade_pending # None => open_trade_pending' = open_trade_pending]_vars

C2_Witness ==
    /\ pc = "score"
    /\ Cardinality(OpenTrades) >= 2
    /\ \E j \in 1..Len(trades_list) :
          /\ trades_list[j].Outcome = "Target Hit"
          /\ trades_list[j].OverlapStatus = "Yes"
    /\ \E j \in OpenTrades : trades_list[j].OverlapStatus = "Yes"

\* round(1.05 * c, 2) in cents: the cent nearest to 1.05 * c.
NearestCent(c) == CHOOSE x \in 0..(2 * c) : Abs(100 * x - 105 * c) < 50

BarsReaching(e, tgt) ==
    {t \in 1..Len(df) : df[t].datetime > e /\ df[t].high >= tgt}

\* C5: an entry with timestamp e and close c ends as Target Hit iff some bar
\* strictly after e has high >= round(1.05*c, 2); the exit bar is then the
\* one with the earliest such timestamp; otherwise it is an Open Trade with
\* no exit date, exit price or holding days.
C5_FirstHitStrictlyAfterEntry ==
    pc \in {"eval", "score"} =>
        \A j \in 1..Len(trades_list) :
            LET tr == trades_list[j]
                e == entries[j].datetime
                reach == BarsReaching(e, NearestCent(entries[j].close))
            IN  /\ tr.EntryDate = e
                /\ tr.EntryPrice = entries[j].close
                /\ (tr.Outcome = "Target Hit") <=> (reach # {})
                /\ reach # {} =>
                      /\ \E t \in reach :
                            /\ tr.ExitDate = df[t].datetime
                            /\ tr.ExitHitPrice = df[t].high
                      /\ \A t \in reach : tr.ExitDate <= df[t].datetime
                /\ reach = {} =>
                      /\ tr.Outcome = "Open Trade"
                      /\ tr.ExitDate = None
                      /\ tr.ExitHitPrice = None
                      /\ tr.HoldingDays = None

C5_Witness ==
    /\ pc = "score"
    /\ \E j \in 1..Len(trades_list) :
          /\ trades_list[j].Outcome = "Target Hit"
          /\ Cardinality(BarsReaching(entries[j].datetime,
                                      NearestCent(entries[j].close))) >= 2
          /\ entries[j].high >= NearestCent(entries[j].close)
    /\ \E j \in 1..Len(trades_list) :
          /\ trades_list[j].Outcome = "Open Trade"
          /\ entries[j].high >= NearestCent(entries[j].close)

HitsWithin(lo, hi) ==
    Cardinality({j \in 1..Len(trades_list) :
                    /\ trades_list[j].Outcome = "Target Hit"
                    /\ trades_list[j].HoldingDays > lo
                    /\ trades_list[j].HoldingDays <= hi})

HitsAbove(lo) ==
    Cardinality({j \in 1..Len(trades_list) :
                    /\ trades_list[j].Outcome = "Target Hit"
                    /\ trades_list[j].HoldingDays > lo})

\* C9: a Target-Hit entry's holding days are the whole days between entry
\* and exit, and it is counted in the bucket <=5, (5,10], (10,20], (20,30]
\* or >30 that holds them (5, 10, 20 and 30 in the lower bucket).
C9_HoldingDaysAndBuckets ==
    pc \in {"eval", "score"} =>
        /\ \A j \in 1..Len(trades_list) :
              LET tr == trades_list[j]
              IN  tr.Outcome = "Target Hit" =>
                    /\ HoursPerDay * tr.HoldingDays <= tr.ExitDate - tr.EntryDate
                    /\ tr.ExitDate - tr.EntryDate < HoursPerDay * (tr.HoldingDays + 1)
        /\ results.le5 = HitsWithin(-1, 5)
        /\ results.d5_10 = HitsWithin(5, 10)
        /\ results.d10_20 = HitsWithin(10, 20)
        /\ results.d20_30 = HitsWithin(20, 30)
        /\ results.gt30 = HitsAbove(30)

C9_Witness ==
    /\ pc = "score"
    /\ results.d20_30 = 1
    /\ results.gt30 = 1
    /\ \E j \in 1..Len(trades_list) : trades_list[j].HoldingDays = 30
    /\ \E j \in 1..Len(trades_list) : trades_list[j].HoldingDays = 31

(* ------------------------------------------------------------------ *)
(* Properties of the entry filter (checked under SpecSignal)           *)
(* ------------------------------------------------------------------ *)

WindowHighs(t) == {df[u].high : u \in (t - StochWindow + 1)..t}
WindowLows(t) == {df[u].low : u \in (t - StochWindow + 1)..t}

\* The 4-bar window ending at t is full and highMax # lowMin.
RangeDefined(t) ==
    /\ t >= StochWindow
    /\ ~ \E h \in WindowHighs(t), l \in WindowLows(t) :
            /\ \A a \in WindowHighs(t) : a <= h
            /\ \A b \in WindowLows(t) : l <= b
            /\ h = l

KDefined(t) ==
    /\ t >= SmoothWindow
    /\ \A u \in (t - SmoothWindow + 1)..t : RangeDefined(u)

DDefined(t) ==
    /\ t >= SmoothWindow
    /\ \A u \in (t - SmoothWindow + 1)..t : KDefined(u)

\* The 2-bar window ending at t is full and avgLoss # 0.
RSIDefined(t) ==
    /\ t >= RsiWindow
    /\ \E u \in (t - RsiWindow + 1)..t : u >= 2 /\ df[u].close < df[u - 1].close

DMADefined(t) == t >= DmaWindow

AllDefined(t) == DMADefined(t) /\ RSIDefined(t) /\ KDefined(t) /\ DDefined(t)

ClaimedSum ==
    5000 * results.le5 + 2500 * results.d5_10 + 1250 * results.d10_20
    + 750 * results.d20_30 + 500 * results.gt30 - 750 * results.NeverHit
    - 1000 * results.Overlapping

\* C8: the score is exactly 0.0 when total = 0; otherwise it is the
\* fixed-weight combination of the seven percentages rounded to 2 decimals
\* (within half a hundredth of it); all entries in the <=5-day bucket and
\* none elsewhere give 50.0.
C8_WeightedScoreFormula ==
    pc = "append" =>
        /\ total_trades = 0 => score = 0
        /\ total_trades > 0 =>
              2 * Abs(score * total_trades - ClaimedSum) <= total_trades
        /\ (/\ total_trades > 0
            /\ results = [ZeroResults EXCEPT !.le5 = total_trades]) => score = 5000

C8_Witness ==
    /\ pc = "append"
    /\ total_trades = 3
    /\ results.d10_20 = 1
    /\ results.NeverHit = 2
    /\ results.Overlapping = 1
    /\ score < 0
    /\ score * total_trades # ClaimedSum

(* ------------------------------------------------------------------ *)
(* Properties of the session and the symbol loop (checked under Spec)  *)
(* ------------------------------------------------------------------ *)

\* What lines 120-149 compute for each series get_hist can return.
PoolOutcome ==
    [p \in 1..Len(Pool) |->
        LET frame == IndicatorFrame(Pool[p])
            ents == SelectEntries(frame)
            st == evaluate_targets(frame, ents)
        IN  [total |-> Len(ents), results |-> st.results, trades |-> st.trades_list,
             score |-> calculate_weighted_score(st.results, Len(ents))]]

\* The number of symbols the loop is through with.
Handled == IF pc \in {"signal", "call", "eval", "score", "append"}
           THEN Len(fetched) - 1
           ELSE Len(fetched)

Succeeded(n) == {j \in 1..n : fetched[j].kind = "series"}

\* The summary of the list symbols[1..n] with the failed symbols left out.
RECURSIVE ExpectedSummary(_)
ExpectedSummary(n) ==
    IF n = 0 THEN <<>>
    ELSE IF fetched[n].kind = "series"
         THEN LET o == PoolOutcome[fetched[n].p]
              IN  Append(ExpectedSummary(n - 1),
                         SummaryRow(symbols[n], o.total, o.results, o.score))
         ELSE ExpectedSummary(n - 1)

\* C3: a symbol whose fetch raises, or whose series is absent or empty,
\* leaves no summary row and no trade log and does not end the run: every
\* later symbol is handled, and the rows of the other symbols are those of
\* the list without the failed symbol.
C3_FailedSymbolSkipped ==
    /\ summary = ExpectedSummary(Handled)
    /\ DOMAIN trade_logs = {symbols[j] : j \in Succeeded(Handled)}
    /\ \A j \in Succeeded(Handled) :
          trade_logs[symbols[j]] =
              <<PoolOutcome[fetched[j].p].results, PoolOutcome[fetched[j].p].trades>>
    /\ pc = "done" => Handled = Len(symbols)

C3_Witness ==
    /\ pc = "done"
    /\ Len(fetched) = 3
    /\ fetched[1].kind = "error"
    /\ fetched[2].kind = "empty"
    /\ fetched[3].kind = "series"
    /\ Len(summary) = 1
    /\ summary[1].Stock = symbols[3]
    /\ summary[1].TotalTrades > 0

Running == pc \notin {"idle", "done"}

\* C4: analysis never runs without a handle, and after a failed Login no
\* analysis runs until a later Login succeeds, also when an earlier Login
\* of the session had succeeded.
C4_NoAnalysisAfterFailedLogin ==
    Running => tv # Absent /\ lastLogin # "failed"

PlaceIn(rows, sym) == CHOOSE a \in 1..Len(rows) : rows[a].Stock = sym

\* C6: after the loop the summary rows are ordered by score descending, and
\* rows of equal score keep the order in which the symbols were processed.
C6_SortedDescendingStable ==
    (pc = "done" /\ summary # <<>>) =>
        /\ \A a \in 1..(Len(summary_df) - 1) :
              summary_df[a].WeightedScore >= summary_df[a + 1].WeightedScore
        /\ \A a, b \in 1..Len(summary) :
              (a < b /\ summary[a].WeightedScore = summary[b].WeightedScore)
                  => PlaceIn(summary_df, summary[a].Stock)
                       < PlaceIn(summary_df, summary[b].Stock)

\* C10: progress is reported after each symbol whatever its outcome: when
\* the i-th of n symbols has been handled the progress is i/n, and it is 1
\* when the loop ends.
C10_ProgressAfterEachSymbol ==
    /\ (pc = "fetch" /\ i > 1) => progress = <<i - 1, Len(symbols)>>
    /\ (pc = "done" /\ Len(symbols) > 0) => progress = <<Len(symbols), Len(symbols)>>

====
